---- MODULE Spec2Model ----
(***************************************************************************)
(* Model of scripts/install-snippets.py: the asset resolution loop of      *)
(* main() with read_script(), and the CDP installer install_via_cdp().     *)
(*                                                                         *)
(* Spec      one call of install_via_cdp(ws_url, snippets) against an      *)
(*           arbitrary peer (any message, or a failure, at every channel   *)
(*           operation).                                                   *)
(* SpecFair  Spec with every step of the call eventually taken.            *)
(* SpecMain  one run of main() against an arbitrary filesystem.            *)
(* SpecFs    SpecMain with built files changing while the batch is read.   *)
(***************************************************************************)
EXTENDS Integers, Sequences, FiniteSets, TLC

VARIABLES
    pc,          \* position inside install_via_cdp
    snippets,    \* the list of {"name", "content"} (argument of install_via_cdp, local of main)
    i,           \* loop variable of "for i, snippet in enumerate(snippets)"
    ws,          \* the websocket: "none" (never created), "open", "closed"
    closeCalls,  \* number of calls of ws.close()
    sent,        \* commands handed to ws.send(), in order
    reads,       \* number of messages returned by ws.recv()
    result,      \* local variable result (the parsed reply)
    stdout,      \* lines printed
    exc,         \* exception propagating out of install_via_cdp ("none" if none)
    mpc,         \* position inside main
    args_list,   \* args.list
    fs,          \* the files that exist
    distExists,  \* dist_dir.exists()
    use_dist,    \* local variable use_dist of main
    si,          \* index into SCRIPTS of the loop "for script in SCRIPTS"
    exitStatus   \* exit status of the process (-1 while running)

vars == <<pc, snippets, i, ws, closeCalls, sent, reads, result, stdout, exc,
          mpc, args_list, fs, distExists, use_dist, si, exitStatus>>

cdpVars == <<pc, i, ws, closeCalls, sent, reads, result, exc>>
mainVars == <<mpc, args_list, fs, distExists, use_dist, si, exitStatus>>

----------------------------------------------------------------------------
(* Bounds *)

\* longest snippet list passed to install_via_cdp
MaxSnippets == 3

----------------------------------------------------------------------------
(* JSON values, tagged by their Python type after json.loads *)

JNull == [t |-> "null"]
JStr(s) == [t |-> "str", s |-> s]
JNum(n) == [t |-> "num", n |-> n]
JArr == [t |-> "list"]
\* a dict is its set of <<key, value>> items
JObj(items) == [t |-> "dict", items |-> items]

HasKey(d, key) == \E kv \in d.items : kv[1] = key

Item(d, key) == (CHOOSE kv \in d.items : kv[1] = key)[2]

\* dict.get(key, default)
DictGet(d, key, default) == IF HasKey(d, key) THEN Item(d, key) ELSE default

\* "id" of a parsed message, NoId when it has none
NoId == -1

MsgId(r) ==
    IF r.t = "dict" /\ HasKey(r, "id") THEN Item(r, "id").n ELSE NoId

----------------------------------------------------------------------------
(* install_via_cdp: commands *)

\* json.dumps of a str without characters that need escaping
JsonDumps(s) == "\"" \o s \o "\""

\* the f-string template of the evaluation expression, interpolation points filled
Script(snippet) ==
    <<"store.put name:", JsonDumps(snippet.name),
      "content:", JsonDumps(snippet.content),
      "return 'Installed: ' +", JsonDumps(snippet.name)>>

EnableCmd == [id |-> 1, method |-> "Runtime.enable"]

\* the identifier counted from 1 instead of 10
EvalIdFromOne(k) == k + 1

EvalId(k) == k + 10

EvalCmd(k, snippet) ==
    [id |-> EvalId(k), method |-> "Runtime.evaluate",
     params |-> [expression |-> Script(snippet), awaitPromise |-> TRUE]]

----------------------------------------------------------------------------
(* The peer: everything ws.recv() may return *)

SnippetUniverse ==
    { [name |-> "lms-extractor", content |-> "/*lms*/"],
      [name |-> "storyline", content |-> "/*storyline*/"] }

SnippetLists == UNION { [1..n -> SnippetUniverse] : n \in 0..MaxSnippets }

MsgIds == {1} \cup { EvalId(k) : k \in 0..(MaxSnippets - 1) }

IdItems == { {} } \cup { { <<"id", JNum(n)>> } : n \in MsgIds }

\* the members of a reply besides "id"
Bodies ==
    { {},
      { <<"method", JStr("Runtime.executionContextCreated")>> },
      { <<"error", JObj({ <<"message", JStr("Uncaught")>> })>> },
      { <<"result", JObj({})>> },
      { <<"result", JObj({ <<"result", JObj({})>> })>> },
      { <<"result", JObj({ <<"result", JObj({ <<"type", JStr("undefined")>> })>> })>> },
      { <<"result", JObj({ <<"result", JObj({ <<"value", JStr("Installed: lms-extractor")>> })>> })>> },
      { <<"result", JObj({ <<"result", JObj({ <<"value", JNull>> })>> })>> },
      { <<"result", JNull>> },
      { <<"result", JObj({ <<"result", JNull>> })>> } }

\* what arrives on the wire: the text of a JSON value, or text that is not JSON
Messages ==
    { [raw |-> "json", val |-> JObj(ids \cup b)] : ids \in IdItems, b \in Bodies }
    \cup { [raw |-> "json", val |-> JArr], [raw |-> "garbage"] }

\* json.loads: the parsed value, or JSONDecodeError
JsonLoads(m) ==
    IF m.raw = "json" THEN [ok |-> TRUE, val |-> m.val]
    ELSE [ok |-> FALSE, val |-> JNull]

Unbound == [t |-> "unbound"]

\* str() of a value inside an f-string
Format(v) ==
    CASE v.t = "str" -> v.s
      [] v.t = "null" -> "None"
      [] OTHER -> "?"

\* subscripting instead of .get with a default: a missing key raises
ExtractStrict(r) ==
    IF r.t # "dict" \/ ~HasKey(r, "result") THEN [ok |-> FALSE, val |-> JNull]
    ELSE LET r1 == Item(r, "result")
         IN IF r1.t # "dict" \/ ~HasKey(r1, "result") THEN [ok |-> FALSE, val |-> JNull]
            ELSE LET r2 == Item(r1, "result")
                 IN IF r2.t # "dict" \/ ~HasKey(r2, "value") THEN [ok |-> FALSE, val |-> JNull]
                    ELSE [ok |-> TRUE, val |-> Item(r2, "value")]

\* result.get('result', {}).get('result', {}).get('value', 'Unknown result');
\* .get on a value that is not a dict raises AttributeError
Extract(r) ==
    IF r.t # "dict" THEN [ok |-> FALSE, val |-> JNull]
    ELSE LET r1 == DictGet(r, "result", JObj({}))
         IN IF r1.t # "dict" THEN [ok |-> FALSE, val |-> JNull]
            ELSE LET r2 == DictGet(r1, "result", JObj({}))
                 IN IF r2.t # "dict" THEN [ok |-> FALSE, val |-> JNull]
                    ELSE [ok |-> TRUE, val |-> DictGet(r2, "value", JStr("Unknown result"))]

OutcomeLine(v) == "  " \o Format(v)

----------------------------------------------------------------------------
(* install_via_cdp: one action per statement *)

\* no finally clause: the exception leaves the function at once
RaiseNoFinally(e) ==
    /\ exc' = e
    /\ pc' = "done"

\* the exception is caught inside the loop body and the loop goes on
RaiseContinue(e) ==
    /\ exc' = e
    /\ pc' = "for"

\* an exception inside the try block: control goes to the finally clause
Raise(e) ==
    /\ exc' = e
    /\ pc' = "finally"

\* a failed create_connection that is not noticed
ConnectUnchecked ==
    /\ pc = "connect"
    /\ \/ /\ ws' = "open"
          /\ exc' = exc
       \/ /\ ws' = ws
          /\ exc' = "ConnectionError"
    /\ pc' = "send_enable"
    /\ UNCHANGED <<snippets, i, closeCalls, sent, reads, result, stdout>>
    /\ UNCHANGED mainVars

\* ws = websocket.create_connection(ws_url), outside the try block
Connect ==
    /\ pc = "connect"
    /\ \/ /\ ws' = "open"
          /\ pc' = "send_enable"
          /\ exc' = exc
       \/ /\ ws' = ws
          /\ pc' = "done"
          /\ exc' = "ConnectionError"
    /\ UNCHANGED <<snippets, i, closeCalls, sent, reads, result, stdout>>
    /\ UNCHANGED mainVars

\* the enable command without the ws.recv() that follows it
SendEnableNoRecv ==
    /\ pc = "send_enable"
    /\ \/ /\ sent' = Append(sent, EnableCmd)
          /\ pc' = "for"
          /\ exc' = exc
       \/ /\ sent' = sent
          /\ Raise("SendError")
    /\ UNCHANGED <<snippets, i, ws, closeCalls, reads, result, stdout>>
    /\ UNCHANGED mainVars

\* the enable command left out
SendEnableOmitted ==
    /\ pc = "send_enable"
    /\ \/ /\ sent' = sent
          /\ pc' = "for"
          /\ exc' = exc
       \/ /\ sent' = sent
          /\ Raise("SendError")
    /\ UNCHANGED <<snippets, i, ws, closeCalls, reads, result, stdout>>
    /\ UNCHANGED mainVars

\* ws.send(json.dumps({"id": 1, "method": "Runtime.enable"}))
SendEnable ==
    /\ pc = "send_enable"
    /\ \/ /\ sent' = Append(sent, EnableCmd)
          /\ pc' = "recv_enable"
          /\ exc' = exc
       \/ /\ sent' = sent
          /\ Raise("SendError")
    /\ UNCHANGED <<snippets, i, ws, closeCalls, reads, result, stdout>>
    /\ UNCHANGED mainVars

\* the enable reply is looked at: without a "result" member the function returns
RecvEnableInspected ==
    /\ pc = "recv_enable"
    /\ \/ \E m \in Messages :
            /\ reads' = reads + 1
            /\ pc' = IF JsonLoads(m).ok /\ JsonLoads(m).val.t = "dict"
                        /\ HasKey(JsonLoads(m).val, "result")
                     THEN "for" ELSE "finally"
            /\ exc' = exc
       \/ /\ reads' = reads
          /\ Raise("RecvError")
    /\ UNCHANGED <<snippets, i, ws, closeCalls, sent, result, stdout>>
    /\ UNCHANGED mainVars

\* ws.recv(), the message is dropped
RecvEnable ==
    /\ pc = "recv_enable"
    /\ \/ \E m \in Messages :
            /\ reads' = reads + 1
            /\ pc' = "for"
            /\ exc' = exc
       \/ /\ reads' = reads
          /\ Raise("RecvError")
    /\ UNCHANGED <<snippets, i, ws, closeCalls, sent, result, stdout>>
    /\ UNCHANGED mainVars

\* the loop stops one snippet early
ForSnippetShort ==
    /\ pc = "for"
    /\ IF i + 2 < Len(snippets)
       THEN /\ i' = i + 1
            /\ pc' = "send_eval"
       ELSE /\ i' = i
            /\ pc' = "finally"
    /\ UNCHANGED <<snippets, ws, closeCalls, sent, reads, result, stdout, exc>>
    /\ UNCHANGED mainVars

\* for i, snippet in enumerate(snippets)
ForSnippet ==
    /\ pc = "for"
    /\ IF i + 1 < Len(snippets)
       THEN /\ i' = i + 1
            /\ pc' = "send_eval"
       ELSE /\ i' = i
            /\ pc' = "finally"
    /\ UNCHANGED <<snippets, ws, closeCalls, sent, reads, result, stdout, exc>>
    /\ UNCHANGED mainVars

\* script = f"""..."""; ws.send(json.dumps({"id": i + 10, ...}))
SendEval ==
    /\ pc = "send_eval"
    /\ \/ /\ sent' = Append(sent, EvalCmd(i, snippets[i + 1]))
          /\ pc' = "recv_eval"
          /\ exc' = exc
       \/ /\ sent' = sent
          /\ Raise("SendError")
    /\ UNCHANGED <<snippets, i, ws, closeCalls, reads, result, stdout>>
    /\ UNCHANGED mainVars

\* a receive with a timeout
RecvEvalTimeout ==
    /\ pc = "recv_eval"
    /\ \/ \E m \in Messages :
            /\ reads' = reads + 1
            /\ IF JsonLoads(m).ok
               THEN /\ result' = JsonLoads(m).val
                    /\ pc' = "print"
                    /\ exc' = exc
               ELSE /\ result' = result
                    /\ Raise("JSONDecodeError")
       \/ /\ reads' = reads
          /\ result' = result
          /\ Raise("RecvError")
       \/ /\ reads' = reads
          /\ result' = result
          /\ Raise("TimeoutError")
    /\ UNCHANGED <<snippets, i, ws, closeCalls, sent, stdout>>
    /\ UNCHANGED mainVars

\* result = json.loads(ws.recv())
RecvEval ==
    /\ pc = "recv_eval"
    /\ \/ \E m \in Messages :
            /\ reads' = reads + 1
            /\ IF JsonLoads(m).ok
               THEN /\ result' = JsonLoads(m).val
                    /\ pc' = "print"
                    /\ exc' = exc
               ELSE /\ result' = result
                    /\ Raise("JSONDecodeError")
       \/ /\ reads' = reads
          /\ result' = result
          /\ Raise("RecvError")
    /\ UNCHANGED <<snippets, i, ws, closeCalls, sent, stdout>>
    /\ UNCHANGED mainVars

\* the outcome is kept for a report at the end instead of being printed
PrintOutcomeBuffered ==
    /\ pc = "print"
    /\ IF Extract(result).ok
       THEN /\ stdout' = stdout
            /\ pc' = "for"
            /\ exc' = exc
       ELSE /\ stdout' = stdout
            /\ Raise("AttributeError")
    /\ UNCHANGED <<snippets, i, ws, closeCalls, sent, reads, result>>
    /\ UNCHANGED mainVars

\* print(f"  {result.get('result', {}).get('result', {}).get('value', 'Unknown result')}")
PrintOutcome ==
    /\ pc = "print"
    /\ IF Extract(result).ok
       THEN /\ stdout' = Append(stdout, OutcomeLine(Extract(result).val))
            /\ pc' = "for"
            /\ exc' = exc
       ELSE /\ stdout' = stdout
            /\ Raise("AttributeError")
    /\ UNCHANGED <<snippets, i, ws, closeCalls, sent, reads, result>>
    /\ UNCHANGED mainVars

\* ws.close() as the last statement of the try block instead of a finally clause
FinallyOnSuccessOnly ==
    /\ pc = "finally"
    /\ IF exc = "none"
       THEN /\ closeCalls' = closeCalls + 1
            /\ ws' = "closed"
            /\ \/ exc' = exc
               \/ exc' = "CloseError"
       ELSE /\ closeCalls' = closeCalls
            /\ ws' = ws
            /\ exc' = exc
    /\ pc' = "done"
    /\ UNCHANGED <<snippets, i, sent, reads, result, stdout>>
    /\ UNCHANGED mainVars

\* ws.close() inside the loop body: the channel is closed with snippets left
FinallyEarly ==
    /\ pc \in {"finally", "for"}
    /\ closeCalls' = closeCalls + 1
    /\ ws' = "closed"
    /\ pc' = IF pc = "for" /\ i + 1 < Len(snippets) /\ closeCalls = 0 THEN "for" ELSE "done"
    /\ \/ exc' = exc
       \/ exc' = "CloseError"
    /\ UNCHANGED <<snippets, i, sent, reads, result, stdout>>
    /\ UNCHANGED mainVars

\* finally: ws.close(); an exception of close() replaces the one in flight
Finally ==
    /\ pc = "finally"
    /\ closeCalls' = closeCalls + 1
    /\ ws' = "closed"
    /\ pc' = "done"
    /\ \/ exc' = exc
       \/ exc' = "CloseError"
    /\ UNCHANGED <<snippets, i, sent, reads, result, stdout>>
    /\ UNCHANGED mainVars

----------------------------------------------------------------------------
(* Specification of one call of install_via_cdp *)

MainIdle ==
    /\ mpc = "idle"
    /\ args_list = FALSE
    /\ fs = {}
    /\ distExists = FALSE
    /\ use_dist = FALSE
    /\ si = 0
    /\ exitStatus = -1

CdpIdle ==
    /\ pc = "idle"
    /\ i = -1
    /\ ws = "none"
    /\ closeCalls = 0
    /\ sent = <<>>
    /\ reads = 0
    /\ result = Unbound
    /\ exc = "none"

Init ==
    /\ MainIdle
    /\ CdpIdle
    /\ stdout = <<>>
    /\ snippets = <<>>

\* the call: binds the argument
Call ==
    /\ pc = "idle"
    /\ \E s \in SnippetLists : snippets' = s
    /\ pc' = "connect"
    /\ UNCHANGED <<i, ws, closeCalls, sent, reads, result, stdout, exc>>
    /\ UNCHANGED mainVars

Next ==
    \/ Call
    \/ Connect
    \/ SendEnable
    \/ RecvEnable
    \/ ForSnippet
    \/ SendEval
    \/ RecvEval
    \/ PrintOutcome
    \/ Finally

Spec == Init /\ [][Next]_vars

----------------------------------------------------------------------------
(* main: the descriptor table and the filesystem *)

SCRIPTS ==
    << [name |-> "lms-extractor", file |-> <<"lms-extractor-complete", ".js">>],
       [name |-> "storyline", file |-> <<"storyline-console-extractor", ".js">>],
       [name |-> "tla-helper", file |-> <<"tla-completion-helper", ".js">>],
       [name |-> "qa-extractor", file |-> <<"unified-qa-extractor", ".js">>] >>

\* a file name is the sequence of its pieces, a directory the sequence of its components
RECURSIVE Replace(_, _, _)
\* str.replace(old, new): every occurrence of the piece old becomes the pieces new
Replace(name, old, new) ==
    IF name = <<>> THEN <<>>
    ELSE (IF Head(name) = old THEN new ELSE <<Head(name)>>) \o Replace(Tail(name), old, new)

\* filename.replace(".js", ".min.js")
MinName(name) == Replace(name, ".js", <<".min", ".js">>)

script_dir == <<"QA">>
lib_dir == script_dir \o <<"lib">>
dist_dir == script_dir \o <<"dist">>

\* Path.parent
Parent(dir) == SubSeq(dir, 1, Len(dir) - 1)

\* dir / filename
Join(dir, name) == [dir |-> dir, name |-> name]

RECURSIVE Concat(_)
Concat(pieces) == IF pieces = <<>> THEN "" ELSE Head(pieces) \o Concat(Tail(pieces))

RECURSIVE DirStr(_)
DirStr(dir) == IF dir = <<>> THEN "" ELSE Head(dir) \o "/" \o DirStr(Tail(dir))

\* str(path)
PathStr(path) == DirStr(path.dir) \o Concat(path.name)

ScriptFiles == { SCRIPTS[k].file : k \in 1..Len(SCRIPTS) }

\* the files main and read_script can look at
Paths ==
    { Join(lib_dir, f) : f \in ScriptFiles }
    \cup { Join(dist_dir, MinName(f)) : f \in ScriptFiles }
    \cup { Join(dist_dir, MinName(MinName(f))) : f \in ScriptFiles }

\* Path.exists() of a file
Exists(path) == path \in fs

\* Path.read_text(): every file has its own text
ReadText(path) == "/* " \o PathStr(path) \o " */"

\* script_path = lib_dir / filename
ScriptPath(dir, filename) == Join(dir, filename)

\* min_path = lib_dir.parent / "dist" / filename.replace(".js", ".min.js")
MinPath(dir, filename) == Join(Parent(dir) \o <<"dist">>, MinName(filename))

\* the arguments main passes to read_script for a descriptor
ReadDir == IF use_dist THEN (IF use_dist THEN dist_dir ELSE lib_dir) ELSE lib_dir

ReadName(script) == IF use_dist THEN MinName(script.file) ELSE script.file

\* read_script(lib_dir, filename): the text, or FileNotFoundError with its message
read_script(dir, filename) ==
    IF ~Exists(ScriptPath(dir, filename))
    THEN IF Exists(MinPath(dir, filename))
         THEN [ok |-> TRUE, text |-> ReadText(MinPath(dir, filename))]
         ELSE [ok |-> FALSE, text |-> "Script not found: " \o PathStr(ScriptPath(dir, filename))]
    ELSE [ok |-> TRUE, text |-> ReadText(ScriptPath(dir, filename))]

----------------------------------------------------------------------------
(* main: one action per step *)

\* args = parser.parse_args(); if args.list: ...; sys.exit(0)
ListOrLoad ==
    /\ mpc = "start"
    /\ IF args_list
       THEN /\ stdout' = stdout \o <<"Available scripts:">>
                 \o [k \in 1..Len(SCRIPTS) |-> "  " \o SCRIPTS[k].name]
            /\ exitStatus' = 0
            /\ mpc' = "done"
       ELSE /\ stdout' = stdout
            /\ exitStatus' = exitStatus
            /\ mpc' = "select"
    /\ UNCHANGED <<snippets, args_list, fs, distExists, use_dist, si>>
    /\ UNCHANGED cdpVars

\* the one in all(...) instead of any(...): packaged only if every file is built
SelectSourceAll ==
    /\ mpc = "select"
    /\ use_dist' = (distExists /\ \A k \in 1..Len(SCRIPTS) :
                                    Exists(Join(dist_dir, MinName(SCRIPTS[k].file))))
    /\ stdout' = Append(stdout, "Loading scripts from: "
                                 \o DirStr(IF use_dist' THEN dist_dir ELSE lib_dir))
    /\ snippets' = <<>>
    /\ si' = 1
    /\ mpc' = "load"
    /\ UNCHANGED <<args_list, fs, distExists, exitStatus>>
    /\ UNCHANGED cdpVars

\* use_dist = dist_dir.exists() and any(...); source_dir = ...; print; snippets = []
SelectSource ==
    /\ mpc = "select"
    /\ use_dist' = (distExists /\ \E k \in 1..Len(SCRIPTS) :
                                    Exists(Join(dist_dir, MinName(SCRIPTS[k].file))))
    /\ stdout' = Append(stdout, "Loading scripts from: "
                                 \o DirStr(IF use_dist' THEN dist_dir ELSE lib_dir))
    /\ snippets' = <<>>
    /\ si' = 1
    /\ mpc' = "load"
    /\ UNCHANGED <<args_list, fs, distExists, exitStatus>>
    /\ UNCHANGED cdpVars

\* dist_dir.exists() and any(...), on the files as they are now
PackagedMode ==
    distExists /\ \E k \in 1..Len(SCRIPTS) : Exists(Join(dist_dir, MinName(SCRIPTS[k].file)))

\* the packaged-mode decision taken again for every descriptor
LoadScriptRecompute ==
    /\ mpc = "load"
    /\ IF si <= Len(SCRIPTS)
       THEN LET script == SCRIPTS[si]
                r == read_script(ReadDir, ReadName(script))
            IN /\ IF r.ok
                  THEN /\ snippets' = Append(snippets, [name |-> script.name, content |-> r.text])
                       /\ stdout' = Append(stdout, "  Loaded: " \o script.name
                                             \o " (" \o ToString(Len(r.text)) \o " bytes)")
                  ELSE /\ snippets' = snippets
                       /\ stdout' = Append(stdout, "  Warning: " \o r.text)
               /\ si' = si + 1
               /\ mpc' = mpc
               /\ use_dist' = PackagedMode
       ELSE /\ mpc' = "check"
            /\ UNCHANGED <<snippets, stdout, si, use_dist>>
    /\ UNCHANGED <<args_list, fs, distExists, exitStatus>>
    /\ UNCHANGED cdpVars

\* one iteration of "for script in SCRIPTS", or the end of the loop
LoadScript ==
    /\ mpc = "load"
    /\ IF si <= Len(SCRIPTS)
       THEN LET script == SCRIPTS[si]
                r == read_script(ReadDir, ReadName(script))
            IN /\ IF r.ok
                  THEN /\ snippets' = Append(snippets, [name |-> script.name, content |-> r.text])
                       /\ stdout' = Append(stdout, "  Loaded: " \o script.name
                                             \o " (" \o ToString(Len(r.text)) \o " bytes)")
                  ELSE /\ snippets' = snippets
                       /\ stdout' = Append(stdout, "  Warning: " \o r.text)
               /\ si' = si + 1
               /\ mpc' = mpc
       ELSE /\ mpc' = "check"
            /\ UNCHANGED <<snippets, stdout, si>>
    /\ UNCHANGED <<args_list, fs, distExists, use_dist, exitStatus>>
    /\ UNCHANGED cdpVars

\* the empty batch is reported but the run goes on
CheckEmptyNoExit ==
    /\ mpc = "check"
    /\ stdout' = IF snippets = <<>> THEN Append(stdout, "No scripts to install!") ELSE stdout
    /\ exitStatus' = exitStatus
    /\ mpc' = "instructions"
    /\ UNCHANGED <<snippets, args_list, fs, distExists, use_dist, si>>
    /\ UNCHANGED cdpVars

\* if not snippets: print("No scripts to install!"); sys.exit(1)
CheckEmpty ==
    /\ mpc = "check"
    /\ IF snippets = <<>>
       THEN /\ stdout' = Append(stdout, "No scripts to install!")
            /\ exitStatus' = 1
            /\ mpc' = "done"
       ELSE /\ stdout' = stdout
            /\ exitStatus' = exitStatus
            /\ mpc' = "instructions"
    /\ UNCHANGED <<snippets, args_list, fs, distExists, use_dist, si>>
    /\ UNCHANGED cdpVars

\* the closing prints of main; main returns
PrintInstructions ==
    /\ mpc = "instructions"
    /\ stdout' = stdout \o <<"Note: This method requires browser to be running with remote debugging.",
                             "To enable remote debugging, start browser with:",
                             "Then run this script again, or use install.html for manual installation.">>
    /\ exitStatus' = 0
    /\ mpc' = "done"
    /\ UNCHANGED <<snippets, args_list, fs, distExists, use_dist, si>>
    /\ UNCHANGED cdpVars

----------------------------------------------------------------------------
(* Specification of one run of main *)

DistPaths == { p \in Paths : p.dir = dist_dir }

InitMain ==
    /\ CdpIdle
    /\ stdout = <<>>
    /\ snippets = <<>>
    /\ mpc = "start"
    /\ args_list \in BOOLEAN
    /\ fs \in SUBSET Paths
    /\ distExists \in BOOLEAN
    /\ (fs \cap DistPaths # {}) => distExists
    /\ use_dist = FALSE
    /\ si = 0
    /\ exitStatus = -1

NextMain ==
    \/ ListOrLoad
    \/ SelectSource
    \/ LoadScript
    \/ CheckEmpty
    \/ PrintInstructions

SpecMain == InitMain /\ [][NextMain]_vars

----------------------------------------------------------------------------
(* Properties of install_via_cdp (specification Spec) *)

\* C1: the channel is used in lock-step: the number of reads never exceeds the
\* number of sends, and at most one command is sent but not yet answered by a read
LockStep ==
    /\ reads <= Len(sent)
    /\ Len(sent) - reads <= 1

\* an evaluation command is outstanding after two complete round trips
LockStepWitness ==
    /\ pc = "recv_eval"
    /\ reads = 2
    /\ Len(sent) = 3

\* C2: once the channel was opened, close is called exactly once on every exit
\* path, never twice and never before the exit
ClosedExactlyOnce ==
    /\ closeCalls <= 1
    /\ closeCalls = 1 => pc = "done"
    /\ (pc = "done" /\ ws # "none") => (closeCalls = 1 /\ ws = "closed")

\* a run that failed to parse the reply of the second snippet and closed the channel
ClosedAfterMidLoopFailure ==
    /\ pc = "done"
    /\ exc = "JSONDecodeError"
    /\ i = 1
    /\ closeCalls = 1

\* C3: the reply from which the outcome of the snippet at position i is
\* extracted carries the id 10+i
OutcomeFromMatchingReply ==
    pc = "print" => MsgId(result) = EvalId(i)

\* C4: the enable command carries id 1 and is the first command, the command for
\* the snippet at position k carries id 10+k and that snippet's expression, and
\* the ids sent are strictly increasing in send order
IdsDeterministic ==
    /\ \A n \in 1..Len(sent) :
         IF n = 1
         THEN sent[n].method = "Runtime.enable" /\ sent[n].id = 1
         ELSE /\ sent[n].method = "Runtime.evaluate"
              /\ sent[n].id = 10 + (n - 2)
              /\ sent[n].params.expression = Script(snippets[n - 1])
    /\ \A m, n \in 1..Len(sent) : m < n => sent[m].id < sent[n].id

\* three evaluation commands sent, for snippets that are not all the same
IdsWitness ==
    /\ Len(sent) = 4
    /\ snippets[1] # snippets[2]
    /\ sent[4].id = 12

\* the exceptions of a step of the loop body
StepFailures == {"SendError", "RecvError", "JSONDecodeError", "AttributeError"}

FailedAtSnippet == i >= 0 /\ exc \in StepFailures

\* C5: when a step fails at the snippet at position i, the outcomes of the
\* snippets before it are the ones printed, the commands sent are the enable
\* command and evaluation commands for positions up to i only, nothing is sent
\* or printed afterwards, the error leaves the function and the channel is
\* closed exactly once
AbortsAtFailure ==
    /\ [](FailedAtSnippet =>
            /\ pc \in {"finally", "done"}
            /\ Len(stdout) = i
            /\ Len(sent) \in {i + 1, i + 2}
            /\ \A n \in 2..Len(sent) : sent[n] = EvalCmd(n - 2, snippets[n - 1])
            /\ pc = "done" => closeCalls = 1)
    /\ [][(FailedAtSnippet /\ pc = "finally") =>
            /\ pc' = "done"
            /\ exc' # "none"
            /\ closeCalls' = 1
            /\ sent' = sent
            /\ stdout' = stdout]_vars

\* the send for the second of three snippets failed, after the first outcome was printed
AbortWitness ==
    /\ pc = "done"
    /\ exc = "SendError"
    /\ i = 1
    /\ Len(snippets) = 3
    /\ Len(stdout) = 1
    /\ Len(sent) = 2
    /\ closeCalls = 1

\* a dict without the path result.result.value
LacksValue(r) ==
    /\ r.t = "dict"
    /\ \/ ~HasKey(r, "result")
       \/ /\ Item(r, "result").t = "dict"
          /\ \/ ~HasKey(Item(r, "result"), "result")
             \/ /\ Item(Item(r, "result"), "result").t = "dict"
                /\ ~HasKey(Item(Item(r, "result"), "result"), "value")

\* C6: a reply that is a dict lacking a level of result.result.value is printed
\* as "Unknown result" and the run goes on to the next snippet without an error
MissingValueDegrades ==
    [][(pc = "print" /\ LacksValue(result)) =>
         /\ stdout' = Append(stdout, "  Unknown result")
         /\ pc' = "for"
         /\ exc' = "none"]_vars

\* the first reply carried only an error member; the second command was sent
\* and the run ended without an exception
MissingValueWitness ==
    /\ pc = "done"
    /\ exc = "none"
    /\ Len(stdout) = 2
    /\ stdout[1] = "  Unknown result"
    /\ Len(sent) = 3
    /\ closeCalls = 1

\* C9: when create_connection fails the call is over: no command was sent, no
\* message read, no outcome printed, and there is no channel to close
OpenFailureAborts ==
    exc = "ConnectionError" =>
        /\ pc = "done"
        /\ ws = "none"
        /\ sent = <<>>
        /\ reads = 0
        /\ stdout = <<>>
        /\ closeCalls = 0

\* the connection failed for a non-empty snippet list
OpenFailureWitness ==
    /\ exc = "ConnectionError"
    /\ Len(snippets) = 2

----------------------------------------------------------------------------
(* Properties of main (specification SpecMain) *)

LoopOver == mpc \in {"check", "instructions", "done"} /\ ~args_list

\* the evaluation commands install_via_cdp sends for a snippet list
EvalCmds(list) == [k \in 1..Len(list) |-> EvalCmd(k - 1, list[k])]

\* C7: when main ends with a non-empty list of resolved snippets, a channel was
\* opened and one evaluation command per resolved snippet was sent, in order
InstallerInvoked ==
    (mpc = "done" /\ ~args_list /\ snippets # <<>>) =>
        /\ ws # "none"
        /\ sent = <<EnableCmd>> \o EvalCmds(snippets)

\* C8: when the resolution loop ends with no snippet, the run ends with exit
\* status 1 after "No scripts to install!", and no channel was opened and no
\* command sent
EmptyBatchFatal ==
    (LoopOver /\ snippets = <<>> /\ mpc # "check") =>
        /\ mpc = "done"
        /\ exitStatus = 1
        /\ stdout[Len(stdout)] = "No scripts to install!"
        /\ pc = "idle"
        /\ ws = "none"
        /\ sent = <<>>

\* nothing resolved although the dist directory exists
EmptyBatchWitness ==
    /\ mpc = "done"
    /\ ~args_list
    /\ snippets = <<>>
    /\ distExists
    /\ exitStatus = 1

\* the descriptor's file can be found in the primary or in the packaged directory
Found(d) ==
    \/ Exists(Join(lib_dir, d.file))
    \/ Exists(Join(dist_dir, MinName(d.file)))

NamesOf(list) == [k \in 1..Len(list) |-> list[k].name]

\* C10: after the resolution loop the snippets are, in table order, exactly the
\* descriptors whose file can be found in the primary or the packaged directory
ResolvesFoundSubset ==
    (LoopOver /\ \E k \in 1..Len(SCRIPTS) : Found(SCRIPTS[k])) =>
        NamesOf(snippets) = NamesOf(SelectSeq(SCRIPTS, Found))

\* C11: for every descriptor of the batch, in both batch modes, the fallback
\* lookup of read_script goes to the directory that the first lookup did not use
FallbackOpposite ==
    (mpc = "load" /\ si <= Len(SCRIPTS)) =>
        MinPath(ReadDir, ReadName(SCRIPTS[si])).dir # ScriptPath(ReadDir, ReadName(SCRIPTS[si])).dir

----------------------------------------------------------------------------
(* Specification of one run of main while other programs change the files *)

\* the files a build writes: the .min.js rendition of every descriptor
BuiltPaths == { Join(dist_dir, MinName(f)) : f \in ScriptFiles }

\* a build or a clean-up running at the same time creates or removes a built
\* file, or the empty dist directory, while the batch is being read
FsChange ==
    /\ mpc = "load"
    /\ \/ \E p \in BuiltPaths :
            /\ distExists
            /\ fs' = IF p \in fs THEN fs \ {p} ELSE fs \cup {p}
            /\ distExists' = distExists
       \/ /\ fs \cap DistPaths = {}
          /\ distExists' = ~distExists
          /\ fs' = fs
    /\ UNCHANGED <<snippets, stdout, mpc, args_list, use_dist, si, exitStatus>>
    /\ UNCHANGED cdpVars

InitFs == InitMain /\ ~args_list /\ fs \cap DistPaths \subseteq BuiltPaths

NextFs ==
    \/ NextMain
    \/ FsChange

SpecFs == InitFs /\ [][NextFs]_vars

\* C12: use_dist is computed once, before the first descriptor is read, as
\* (dist exists) and (some descriptor's .min.js file exists in dist); it is
\* never assigned again, whatever happens to the files during the batch, and
\* every descriptor is read with the directory and name that value selects
PackagedModeFixed ==
    /\ [][(mpc = "select" /\ mpc' # "select") =>
            /\ use_dist' = PackagedMode
            /\ si' = 1
            /\ snippets' = <<>>]_vars
    /\ [][mpc # "select" => use_dist' = use_dist]_vars
    /\ [][(mpc = "load" /\ si' = si + 1) =>
            LET first == Join(IF use_dist THEN dist_dir ELSE lib_dir,
                              IF use_dist THEN MinName(SCRIPTS[si].file) ELSE SCRIPTS[si].file)
            IN Exists(first) =>
                 snippets' = Append(snippets, [name |-> SCRIPTS[si].name,
                                               content |-> ReadText(first)])]_vars

\* the batch was judged non-packaged, the files changed so that it would now be
\* judged packaged, and a later descriptor is still to be read
PackagedModeWitness ==
    /\ mpc = "load"
    /\ si = 3
    /\ ~use_dist
    /\ PackagedMode
    /\ Len(snippets) = 2

----------------------------------------------------------------------------
(* Further properties of install_via_cdp (specifications Spec and SpecFair) *)

\* every command of a run on a snippet list in which nothing fails
Expected == <<EnableCmd>> \o EvalCmds(snippets)

\* C13: when no step fails, the evaluation commands sent are exactly one per
\* snippet, in the order of the list, and one outcome is printed per snippet;
\* the outcome printed in the k-th pass of the loop follows the command built
\* from the k-th snippet
OnePerSnippet ==
    /\ (pc \in {"finally", "done"} /\ exc = "none") =>
          /\ sent = Expected
          /\ Len(stdout) = Len(snippets)
    /\ pc = "print" =>
          /\ Len(stdout) = i
          /\ Len(sent) = i + 2
          /\ sent[Len(sent)] = EvalCmd(i, snippets[i + 1])

\* a run on three snippets ended without an exception
OnePerSnippetWitness ==
    /\ pc = "done"
    /\ exc = "none"
    /\ Len(snippets) = 3
    /\ Len(stdout) = 3

\* C14: the enable command is the first command sent and is sent once, it is
\* sent whenever the run gets past the enable step, and a message has been read
\* before any evaluation command is sent
EnableFirst ==
    /\ \A n \in 1..Len(sent) : (sent[n].method = "Runtime.enable") <=> (n = 1)
    /\ pc \in {"recv_enable", "for", "send_eval", "recv_eval", "print"} => Len(sent) >= 1
    /\ Len(sent) >= 2 => reads >= 1

\* the first evaluation command was sent after the enable command and one read
EnableFirstWitness ==
    /\ pc = "recv_eval"
    /\ Len(sent) = 2
    /\ reads = 1
    /\ sent[2].method = "Runtime.evaluate"

\* C15: the commands sent are always a prefix of the sequence fixed by the
\* snippet list, and the whole of it when no step fails, whatever the replies
\* contain; reading the enable reply changes nothing but the position
CommandsFromSnippetsOnly ==
    /\ [](/\ Len(sent) <= Len(Expected)
          /\ sent = SubSeq(Expected, 1, Len(sent))
          /\ (pc = "finally" /\ exc = "none") => sent = Expected)
    /\ [][(pc = "recv_enable" /\ reads' = reads + 1) =>
            /\ pc' = "for"
            /\ UNCHANGED <<snippets, i, ws, closeCalls, sent, result, stdout, exc>>]_vars

\* a run whose two replies differed (no value, then a value) sent every command
CommandsWitness ==
    /\ pc = "finally"
    /\ exc = "none"
    /\ stdout = <<"  Unknown result", "  Installed: lms-extractor">>
    /\ Len(sent) = 3

\* number of messages read for evaluation commands
EvalReads == IF reads = 0 THEN 0 ELSE reads - 1

\* C16 as stated: every outcome is printed before the next command is sent,
\* and when the run is over the outcomes printed are as many as the replies read
OutcomesAreRepliesRead ==
    /\ pc = "send_eval" => Len(stdout) = i
    /\ pc \in {"finally", "done"} => Len(stdout) = EvalReads

\* the exceptions raised on a reply that was read
ReplyFailures == {"JSONDecodeError", "AttributeError"}

\* C16 amended: every outcome is printed before the next command is sent, and
\* at the end of the loop or at an abort the outcomes printed are as many as
\* the replies read, less the reply on which json.loads or .get raised;
\* nothing is printed by the finally clause
OutcomesStreamed ==
    /\ [](/\ pc = "send_eval" => Len(stdout) = i
          /\ pc \in {"for", "finally"} =>
                Len(stdout) = EvalReads - (IF exc \in ReplyFailures THEN 1 ELSE 0))
    /\ [][pc = "finally" => stdout' = stdout]_vars

\* the second reply was read but was not JSON: one outcome for two replies
OutcomesStreamedWitness ==
    /\ pc = "finally"
    /\ exc = "JSONDecodeError"
    /\ reads = 3
    /\ Len(stdout) = 1

\* C17: nothing is sent or read while there is no channel, every send and every
\* read happens on the open channel, and the channel goes from absent to open
\* and from open to closed only
ChannelScoped ==
    /\ [](ws = "none" => (sent = <<>> /\ reads = 0 /\ closeCalls = 0))
    /\ [][(sent' # sent \/ reads' # reads) => (ws = "open" /\ ws' = "open")]_vars
    /\ [][ws' # ws => ((ws = "none" /\ ws' = "open") \/ (ws = "open" /\ ws' = "closed"))]_vars

\* the channel is closed after four commands and four reads
ChannelScopedWitness ==
    /\ ws = "closed"
    /\ Len(sent) = 4
    /\ reads = 4

\* C18: a run waiting in ws.recv() leaves that statement only by a message or
\* by an exception of recv; until then nothing is sent, printed or closed
NoTimeout ==
    [][(pc = "recv_enable" \/ pc = "recv_eval") =>
         ((reads' = reads + 1 \/ exc' = "RecvError") /\ sent' = sent /\
          stdout' = stdout /\ closeCalls' = closeCalls /\ ws' = ws)]_vars

\* the run waits for the reply to the third evaluation command
NoTimeoutWitness ==
    /\ pc = "recv_eval"
    /\ i = 2
    /\ reads = 3
    /\ ws = "open"

\* every step of the call that can be taken is taken: each send and each recv
\* returns or raises
SpecFair == Init /\ [][Next]_vars /\ WF_vars(Next)

\* C19: a call that opened the channel ends with the channel closed
Terminates ==
    (ws = "open") ~> (pc = "done" /\ ws = "closed")

\* the call on three snippets is over, the channel closed
TerminatesWitness ==
    /\ pc = "done"
    /\ ws = "closed"
    /\ Len(snippets) = 3
    /\ i = 2

----------------------------------------------------------------------------
(* Further properties of main (specification SpecMain) *)

\* C20: with files that do not change, every resolved snippet is the text of an
\* existing file of one directory: lib in non-packaged mode, dist in packaged mode
SingleDirectory ==
    \A k \in 1..Len(snippets) :
        \E p \in Paths :
            /\ p.dir = (IF use_dist THEN dist_dir ELSE lib_dir)
            /\ Exists(p)
            /\ snippets[k].content = ReadText(p)

\* packaged mode with two snippets resolved while a lib file of a descriptor
\* that was skipped exists
SingleDirectoryWitness ==
    /\ mpc = "done"
    /\ use_dist
    /\ Len(snippets) = 2
    /\ \E k \in 1..Len(SCRIPTS) :
          /\ Exists(Join(lib_dir, SCRIPTS[k].file))
          /\ \A n \in 1..Len(snippets) : snippets[n].name # SCRIPTS[k].name

====
